---- MODULE Spec2Model ----
(***************************************************************************)
(* The crawling subsystem of bc-scraper3: the Request Router               *)
(* (background/mod.rs), the scraper workers (background/scraper/thread.rs  *)
(* and scraper.rs), the caching Gateway thread (background/web/cache.rs)   *)
(* and the rate-limited network thread (background/web/thread.rs and       *)
(* client.rs).  Threads are interleaved at their blocking points and at    *)
(* each atomic operation on the shared statistics.                         *)
(***************************************************************************)
EXTENDS Integers, Sequences, FiniteSets, TLC

\* ------------------------------------------------------------------ bounds
NumWorkers == 2
NumCallers == 2
MaxSubmits == 2
MaxPages == 2
MaxElapsed == 1000
TickMs == 500
MaxRows == 3
MaxOpens == 3

\* ------------------------------------------------------- program constants
\* crossbeam::channel::bounded(1) of the scraped (output) channel
ScrapedCapacity == 1
\* the capacity-1 job queue in front of the Gateway
WebCapacity == 1
\* const REQUEST_DELAY: Duration = Duration::from_secs(1), in milliseconds
REQUEST_DELAY == 1000
\* let migrations = [ ... ]: the number of migration steps of Cache::new
NumMigrations == 7

\* ------------------------------------------------------------------- values
Workers == 1 .. NumWorkers
Callers == 1 .. NumCallers

\* SQL NULL in the data column, None of an Option<token>, and an empty
\* response channel
Null == << "null", 0 >>
NoToken == -1
NoBody == [fmt |-> "none", n |-> 0, more |-> FALSE]
NoRequest == [kind |-> "none", url |-> "none"]

\* enum Request { Artist { url }, Release { url }, User { url } }
Request(k, u) == [kind |-> k, url |-> u]

Kinds == { "Artist", "Release", "User" }
Urls == { "x", "y" }
Requests == { Request(k, u) : k \in Kinds, u \in Urls }

\* The Requests the interactive layer submits: one of each kind, all at one URL
Pool ==
    { Request("Release", "x"), Request("User", "x"), Request("Artist", "x") }

\* A response body of the origin: a page whose embedded list holds n items and
\* says whether more are available, or a body no parser accepts ("junk").
\* The list is the embedded thumbs of a release page, the items of a fan page
\* or of an API page, and the data-client-items of an artist page (n = 0: the
\* music grid has no such attribute).
Junk == [fmt |-> "junk", n |-> 0, more |-> FALSE]
Page(n, more) == [fmt |-> "page", n |-> n, more |-> more]
Bodies == { Junk } \cup { Page(n, m) : n \in 0 .. 1, m \in BOOLEAN }

\* A release page that parses, with one embedded thumb, whose item_type is
\* neither "a" nor "t"
BadType == [fmt |-> "bad_type", n |-> 1, more |-> FALSE]

\* Result<String>: a body, or the error of the call
Err == [fmt |-> "error", n |-> 0, more |-> FALSE]
Results == Bodies \cup { Err }

\* The cache key (url, method, data): data is NULL for a GET and the JSON body
\* (here: which API and which continuation token) for a POST.
GetKey(u) == [url |-> u, method |-> "get", data |-> Null]
PostKey(u, api, token) ==
    [url |-> u, method |-> "post", data |-> <<api, token>>]
Keys ==
    { GetKey(u) : u \in Urls }
        \cup { PostKey(u, a, t) : u \in Urls,
                                  a \in { "thumbs", "collection_items" },
                                  t \in 0 .. MaxPages }

NoJob == [from |-> 0, key |-> GetKey("none")]
Job(w, key) == [from |-> w, key |-> key]

\* enum Response: the primary variants and the relationship batches
PrimaryOf(kind) == kind
IsPrimary(tag) == tag \in { "Artist", "Release", "User" }
IsBatch(tag) == tag \in { "Fans", "ReleaseArtist", "Collection", "Releases" }
Response(req, tag) == [req |-> req, tag |-> tag]
NoResponse == Response(NoRequest, "none")

VARIABLES
    done, to_scrape_tx, to_scrape, scraped_rx, scraped, stats, thread,
    caller, worker, web, reply, cache_thread, server_requests, server_reply,
    web_thread, pages, elapsed, cache, release_page,
    submits, pushed, emitted, received, fetched, last_gap

vars ==
    << done, to_scrape_tx, to_scrape, scraped_rx, scraped, stats, thread,
       caller, worker, web, reply, cache_thread, server_requests,
       server_reply, web_thread, pages, elapsed, cache, release_page,
       submits, pushed, emitted, received, fetched, last_gap >>

routerVars == << done, to_scrape_tx, scraped_rx, thread, caller, submits >>
gatewayVars ==
    << web, reply, cache_thread, server_requests, server_reply, web_thread,
       pages, elapsed, cache, release_page, fetched, last_gap >>

\* ------------------------------------------------------------------ helpers
Inc(field) == [stats EXCEPT ![field] = @ + 1]
\* fetch_sub on an AtomicUsize: the model keeps the mathematical value, so a
\* value below zero stands for a wrapped counter.
Dec(field) == [stats EXCEPT ![field] = @ - 1]

Terminated(w) == worker[w].pc \in { "exited", "panicked" }
\* crossbeam: a send fails once every Receiver is dropped; each worker thread
\* owns one clone of the to_scrape Receiver until it ends.
ReceiversAlive == \E w \in Workers : ~Terminated(w)
\* crossbeam: a receive on an empty channel is Disconnected once every Sender
\* is dropped; each worker thread owns one clone of the scraped Sender, moved
\* into its closure, until it ends.
SendersAlive == \E w \in Workers : ~Terminated(w)

IdleWorker ==
    [pc |-> "recv", req |-> NoRequest, stage |-> "none", resp |-> "none",
     primary |-> FALSE, more |-> FALSE, token |-> NoToken,
     cb |-> <<>>, calls |-> 0, batches |-> 0, last_more |-> TRUE,
     late |-> FALSE]

\* ---------------------------------------------------------------------- Init
\* The cache file: its user_version and the migration steps executed on it so
\* far (schema), and Cache::new's position in it: the version read at the
\* start, the index of the loop, how often the file has been opened.
Stored(v) ==
    [pc |-> "closed", user_version |-> v, version |-> 0, index |-> 0,
     schema |-> [i \in 1 .. v |-> i], opens |-> 0]
\* A cache file opened for the first time and migrated by Cache::new
Migrated ==
    [pc |-> "open", user_version |-> NumMigrations, version |-> 0,
     index |-> NumMigrations + 1,
     schema |-> [i \in 1 .. NumMigrations |-> i], opens |-> 1]

Pipeline ==
    /\ done = {}
    /\ to_scrape_tx = TRUE
    /\ to_scrape = <<>>
    /\ scraped_rx = TRUE
    /\ scraped = <<>>
    /\ stats =
        [items_duplicate |-> 0, items_queued |-> 0, items_processing |-> 0,
         items_completed |-> 0, web_requests |-> 0, web_cache_misses |-> 0,
         web_cache_hits |-> 0]
    /\ thread = "alive"
    /\ caller = [c \in Callers |-> [pc |-> "idle", req |-> NoRequest]]
    /\ worker = [w \in Workers |-> IdleWorker]
    /\ web = <<>>
    /\ reply = [w \in Workers |-> NoBody]
    /\ cache_thread = [pc |-> "recv", job |-> NoJob]
    /\ server_requests = <<>>
    /\ server_reply = NoBody
    /\ web_thread = [pc |-> "recv", job |-> NoJob, delay |-> 0]
    /\ pages = <<>>
    /\ elapsed = 0
    /\ submits = 0
    /\ pushed = [r \in Requests |-> 0]
    /\ emitted = [r \in Requests |-> <<>>]
    /\ received = [r \in Requests |-> <<>>]
    /\ fetched = [k \in Keys |-> <<>>]
    /\ last_gap = REQUEST_DELAY

\* struct ReleaseLdData { track: Option<ItemList<Track>>,
\*                        duration: Option<BrokenDuration> }
\* An Option is a sequence of at most one value; a duration is its number of
\* seconds; an ItemList is the sequence of the durations of its elements.
None == <<>>
Some(x) == << x >>
ReleaseLdData(duration, track) ==
    [pc |-> "page", duration |-> duration, track |-> track, length |-> 0]
NoPage == [pc |-> "none", duration |-> None, track |-> None, length |-> 0]

Init == Pipeline /\ cache = Migrated /\ release_page = NoPage

\* ------------------------------------------------- Request Router: Thread
\* Variant of send_insert: the seen-set is not consulted
send_insert_m(c, r, max) ==
    /\ thread = "alive"
    /\ caller[c].pc = "idle"
    /\ submits < max
    /\ done' = done \cup { r }
    /\ caller' = [caller EXCEPT ![c] = [pc |-> "queued", req |-> r]]
    /\ submits' = submits + 1
    /\ UNCHANGED << to_scrape_tx, to_scrape, scraped_rx, scraped, stats,
                    thread, worker, pushed, emitted, received >>
    /\ UNCHANGED gatewayVars

\* Thread::send, first statement: self.done.lock().unwrap().insert(request)
send_insert(c, r, max) ==
    /\ thread = "alive"
    /\ caller[c].pc = "idle"
    /\ submits < max
    /\ done' = done \cup { r }
    /\ caller' =
        [caller EXCEPT
            ![c] = [pc |-> IF r \in done THEN "duplicate" ELSE "queued",
                    req |-> r]]
    /\ submits' = submits + 1
    /\ UNCHANGED << to_scrape_tx, to_scrape, scraped_rx, scraped, stats,
                    thread, worker, pushed, emitted, received >>
    /\ UNCHANGED gatewayVars

\* Variant of send_queued: the new Request is pushed without being counted
send_queued_m(c) ==
    /\ caller[c].pc = "queued"
    /\ caller' = [caller EXCEPT ![c].pc = "push"]
    /\ UNCHANGED << done, to_scrape_tx, to_scrape, scraped_rx, scraped, stats,
                    thread, worker, submits, pushed, emitted, received >>
    /\ UNCHANGED gatewayVars

\* Thread::send, new request: self.stats.items_queued.fetch_add(1)
send_queued(c) ==
    /\ caller[c].pc = "queued"
    /\ stats' = Inc("items_queued")
    /\ caller' = [caller EXCEPT ![c].pc = "push"]
    /\ UNCHANGED << done, to_scrape_tx, to_scrape, scraped_rx, scraped,
                    thread, worker, submits, pushed, emitted, received >>
    /\ UNCHANGED gatewayVars

\* Variant of send_push: the input queue is a rendezvous channel, a push waits
\* for a worker to take the Request before it
send_push_m(c) ==
    /\ caller[c].pc = "push"
    /\ ReceiversAlive => to_scrape = <<>>
    /\ IF ReceiversAlive
          THEN /\ to_scrape' = Append(to_scrape, caller[c].req)
               /\ pushed' = [pushed EXCEPT ![caller[c].req] = @ + 1]
          ELSE UNCHANGED << to_scrape, pushed >>
    /\ caller' = [caller EXCEPT ![c] = [pc |-> "idle", req |-> NoRequest]]
    /\ UNCHANGED << done, to_scrape_tx, scraped_rx, scraped, stats, thread,
                    worker, submits, emitted, received >>
    /\ UNCHANGED gatewayVars

\* Thread::send, new request: self.to_scrape_tx.as_ref().unwrap().send(request)?
\* The channel is unbounded: the send never blocks, and fails only when every
\* Receiver is gone.
send_push(c) ==
    /\ caller[c].pc = "push"
    /\ IF ReceiversAlive
          THEN /\ to_scrape' = Append(to_scrape, caller[c].req)
               /\ pushed' = [pushed EXCEPT ![caller[c].req] = @ + 1]
          ELSE UNCHANGED << to_scrape, pushed >>
    /\ caller' = [caller EXCEPT ![c] = [pc |-> "idle", req |-> NoRequest]]
    /\ UNCHANGED << done, to_scrape_tx, scraped_rx, scraped, stats, thread,
                    worker, submits, emitted, received >>
    /\ UNCHANGED gatewayVars

\* Variant of send_duplicate: a seen request is counted as queued
send_duplicate_m(c) ==
    /\ caller[c].pc = "duplicate"
    /\ stats' = Inc("items_queued")
    /\ caller' = [caller EXCEPT ![c] = [pc |-> "idle", req |-> NoRequest]]
    /\ UNCHANGED << done, to_scrape_tx, to_scrape, scraped_rx, scraped,
                    thread, worker, submits, pushed, emitted, received >>
    /\ UNCHANGED gatewayVars

\* Thread::send, seen request: self.stats.items_duplicate.fetch_add(1)
send_duplicate(c) ==
    /\ caller[c].pc = "duplicate"
    /\ stats' = Inc("items_duplicate")
    /\ caller' = [caller EXCEPT ![c] = [pc |-> "idle", req |-> NoRequest]]
    /\ UNCHANGED << done, to_scrape_tx, to_scrape, scraped_rx, scraped,
                    thread, worker, submits, pushed, emitted, received >>
    /\ UNCHANGED gatewayVars

\* Thread::send as a whole, one caller at a step of it; the interactive layer
\* submits Requests of `pool`, at most `max` times
send(c, pool, max) ==
    \/ \E r \in pool : send_insert(c, r, max)
    \/ send_queued(c)
    \/ send_push(c)
    \/ send_duplicate(c)

\* Variant of try_recv: the Response taken off the channel is not handed on
try_recv_m ==
    /\ thread = "alive"
    /\ IF scraped /= <<>>
          THEN /\ scraped' = Tail(scraped)
               /\ UNCHANGED received
          ELSE UNCHANGED << scraped, received >>
    /\ UNCHANGED << done, to_scrape_tx, to_scrape, scraped_rx, stats, thread,
                    caller, worker, submits, pushed, emitted >>
    /\ UNCHANGED gatewayVars

\* Thread::try_recv, the value returned.  crossbeam's Receiver::try_recv gives
\* the message at the head of the channel; on an empty channel it gives
\* TryRecvError::Empty while a Sender is alive and TryRecvError::Disconnected
\* once every Sender is gone.  Ok(Some(response)), Ok(None) and Err(err):
try_recv_result ==
    IF scraped /= <<>>
       THEN [ok |-> TRUE, some |-> TRUE, response |-> Head(scraped)]
       ELSE [ok |-> SendersAlive, some |-> FALSE, response |-> NoResponse]

\* Thread::try_recv: a non-blocking pop of the scraped channel
try_recv ==
    /\ thread = "alive"
    /\ IF try_recv_result.some
          THEN /\ scraped' = Tail(scraped)
               /\ received' =
                    [received EXCEPT
                        ![try_recv_result.response.req] =
                            Append(@, try_recv_result.response.tag)]
          ELSE UNCHANGED << scraped, received >>
    /\ UNCHANGED << done, to_scrape_tx, to_scrape, scraped_rx, stats, thread,
                    caller, worker, submits, pushed, emitted >>
    /\ UNCHANGED gatewayVars

\* impl Drop for Thread: self.to_scrape_tx.take().  Drop has the Thread by
\* &mut, so no send or try_recv is in progress.
drop_take_tx ==
    /\ thread = "alive"
    /\ \A c \in Callers : caller[c].pc = "idle"
    /\ to_scrape_tx' = FALSE
    /\ thread' = "dropping"
    /\ UNCHANGED << done, to_scrape, scraped_rx, scraped, stats, caller,
                    worker, submits, pushed, emitted, received >>
    /\ UNCHANGED gatewayVars

\* impl Drop for Thread: self.scraped_rx.take() drops the Receiver and with it
\* the Responses still buffered
drop_take_rx ==
    /\ thread = "dropping"
    /\ scraped_rx' = FALSE
    /\ scraped' = <<>>
    /\ thread' = "joining"
    /\ UNCHANGED << done, to_scrape_tx, to_scrape, stats, caller, worker,
                    submits, pushed, emitted, received >>
    /\ UNCHANGED gatewayVars

\* Variant of drop_join: the result of join() is dropped
drop_join_m ==
    /\ thread = "joining"
    /\ \A w \in Workers : Terminated(w)
    /\ thread' = "joined"
    /\ UNCHANGED << done, to_scrape_tx, to_scrape, scraped_rx, scraped, stats,
                    caller, worker, submits, pushed, emitted, received >>
    /\ UNCHANGED gatewayVars

\* impl Drop for Thread: join(), and resume_unwind of a worker's panic
drop_join ==
    /\ thread = "joining"
    /\ \A w \in Workers : Terminated(w)
    /\ thread' =
        IF \E w \in Workers : worker[w].pc = "panicked"
           THEN "resume_unwind" ELSE "joined"
    /\ UNCHANGED << done, to_scrape_tx, to_scrape, scraped_rx, scraped, stats,
                    caller, worker, submits, pushed, emitted, received >>
    /\ UNCHANGED gatewayVars

\* ------------------------------------------------ scraper worker: thread.rs
workerFrame ==
    << done, to_scrape_tx, scraped_rx, thread, caller, submits, pushed,
       received >>
gatewayFrame ==
    << cache_thread, server_requests, server_reply, web_thread, pages,
       elapsed, cache, release_page, fetched, last_gap >>

\* Variant of run_recv: the loop does not end when the Sender is dropped
run_recv_m(w) ==
    /\ worker[w].pc = "recv"
    /\ to_scrape /= <<>>
    /\ to_scrape' = Tail(to_scrape)
    /\ worker' =
        [worker EXCEPT
            ![w] = [IdleWorker EXCEPT !.pc = "dec_queued",
                                      !.req = Head(to_scrape),
                                      !.late = thread /= "alive"]]
    /\ UNCHANGED << scraped, stats, emitted, web, reply >>
    /\ UNCHANGED workerFrame
    /\ UNCHANGED gatewayFrame

\* run: `for request in &to_scrape`: the next Request, or the end of the loop
\* once the Sender is dropped and the queue is drained
run_recv(w) ==
    /\ worker[w].pc = "recv"
    /\ IF to_scrape /= <<>>
          THEN /\ to_scrape' = Tail(to_scrape)
               /\ worker' =
                    [worker EXCEPT
                        ![w] = [IdleWorker EXCEPT
                                    !.pc = "dec_queued",
                                    !.req = Head(to_scrape),
                                    !.late = thread /= "alive"]]
          ELSE /\ ~to_scrape_tx
               /\ worker' = [worker EXCEPT ![w].pc = "exited"]
               /\ UNCHANGED to_scrape
    /\ UNCHANGED << scraped, stats, emitted, web, reply >>
    /\ UNCHANGED workerFrame
    /\ UNCHANGED gatewayFrame

\* Variant of run_dec_queued: a Request taken by a worker stays counted as
\* queued
run_dec_queued_m(w) ==
    /\ worker[w].pc = "dec_queued"
    /\ worker' = [worker EXCEPT ![w].pc = "inc_processing"]
    /\ UNCHANGED << to_scrape, scraped, stats, emitted, web, reply >>
    /\ UNCHANGED workerFrame
    /\ UNCHANGED gatewayFrame

\* run: stats.items_queued.fetch_sub(1)
run_dec_queued(w) ==
    /\ worker[w].pc = "dec_queued"
    /\ stats' = Dec("items_queued")
    /\ worker' = [worker EXCEPT ![w].pc = "inc_processing"]
    /\ UNCHANGED << to_scrape, scraped, emitted, web, reply >>
    /\ UNCHANGED workerFrame
    /\ UNCHANGED gatewayFrame

\* Variant of run_inc_processing: the statistic is a flag, set by a store
run_inc_processing_m(w) ==
    /\ worker[w].pc = "inc_processing"
    /\ stats' = [stats EXCEPT !.items_processing = 1]
    /\ worker' = [worker EXCEPT ![w].pc = "get"]
    /\ UNCHANGED << to_scrape, scraped, emitted, web, reply >>
    /\ UNCHANGED workerFrame
    /\ UNCHANGED gatewayFrame

\* run: stats.items_processing.fetch_add(1), then into handle_request
run_inc_processing(w) ==
    /\ worker[w].pc = "inc_processing"
    /\ stats' = Inc("items_processing")
    /\ worker' = [worker EXCEPT ![w].pc = "get"]
    /\ UNCHANGED << to_scrape, scraped, emitted, web, reply >>
    /\ UNCHANGED workerFrame
    /\ UNCHANGED gatewayFrame

\* Scraper::get: self.web.send(web::Request::Get { url, response: tx }) for the
\* page of the Request; the worker then waits in rx.recv()
get(w) ==
    /\ worker[w].pc = "get"
    /\ Len(web) < WebCapacity
    /\ web' = Append(web, Job(w, GetKey(worker[w].req.url)))
    /\ worker' = [worker EXCEPT ![w].pc = "wait_page"]
    /\ UNCHANGED << to_scrape, scraped, stats, emitted, reply >>
    /\ UNCHANGED workerFrame
    /\ UNCHANGED gatewayFrame

\* scrape_collectors_api / scrape_collections_api: the body of the POST carries
\* the most recent token
ApiOf(kind) == IF kind = "Release" THEN "thumbs" ELSE "collection_items"

\* Scraper::post: self.web.send(web::Request::Post { url, data, response: tx })
post(w) ==
    /\ worker[w].pc = "post"
    /\ Len(web) < WebCapacity
    /\ web' =
        Append(web,
               Job(w, PostKey(worker[w].req.url, ApiOf(worker[w].req.kind),
                              worker[w].token)))
    /\ worker' = [worker EXCEPT ![w].pc = "wait_api", ![w].calls = @ + 1]
    /\ UNCHANGED << to_scrape, scraped, stats, emitted, reply >>
    /\ UNCHANGED workerFrame
    /\ UNCHANGED gatewayFrame

\* ---------------------------------------------------- scraper: scraper.rs
\* Variant of Fail: run returns on every Err of handle_request
Fail_m(s) == [s EXCEPT !.pc = "exited", !.stage = "failed"]

\* Variant of Fail: a continuation call that failed is made again
Fail_retry_m(s) ==
    [s EXCEPT !.pc = IF s.pc = "wait_api" THEN "post" ELSE "dec_processing",
              !.stage = "failed"]

\* Variant of Fail: handle_request sends the primary Response on an Err too
Fail_send_m(s) ==
    [s EXCEPT !.pc = "send", !.resp = PrimaryOf(s.req.kind),
              !.stage = "failed", !.primary = TRUE]

\* handle_request returned an Err that is no SendError: run logs it and goes on
Fail(s) == [s EXCEPT !.pc = "dec_processing", !.stage = "failed"]

\* The end of a scrape_* entry point: back in handle_request, which takes the
\* stored primary entity out of its RefCell and sends the primary Response.
Return(s) ==
    [s EXCEPT !.pc = "send", !.resp = PrimaryOf(s.req.kind),
              !.stage = "primary"]

\* `while more_available { ... }`; in scrape_release the loop is inside
\* `if let Some(mut token) = token`
Loop(s) ==
    IF s.more /\ s.token /= NoToken THEN [s EXCEPT !.pc = "post"] ELSE Return(s)

\* A callback of handle_request that sends a relationship batch
Callback(s, name, tag, stage) ==
    [s EXCEPT !.pc = "send", !.cb = Append(@, name), !.resp = tag,
              !.stage = stage]

\* Variant of scrape_release_page: the reviews go to on_fans before
\* on_release_artist is called
scrape_release_page_m(s, body) ==
    Callback([s EXCEPT !.cb = Append(@, "on_release"), !.primary = TRUE,
                       !.more = body.more, !.last_more = body.more,
                       !.token = IF body.n > 0 THEN 0 ELSE NoToken],
             "on_fans", "Fans", "reviews")

\* Variant of scrape_release_page: the item_type is not looked at
scrape_release_page_type_m(s, body) ==
    Callback([s EXCEPT !.cb = Append(@, "on_release"), !.primary = TRUE,
                       !.more = body.more, !.last_more = body.more,
                       !.token = IF body.n > 0 THEN 0 ELSE NoToken],
             "on_release_artist", "ReleaseArtist", "artist")

\* scrape_release past the page: the arguments of on_release are built first,
\* and an item_type other than "a" and "t" is an Err there, before any
\* callback; then on_release stores the primary entity and on_release_artist
\* sends ReleaseArtist; the token is that of the last embedded thumb, if
\* there is one.
scrape_release_page(s, body) ==
    IF body = BadType
       THEN Fail(s)
       ELSE Callback([s EXCEPT !.cb = Append(@, "on_release"),
                               !.primary = TRUE,
                               !.more = body.more, !.last_more = body.more,
                               !.token = IF body.n > 0 THEN 0 ELSE NoToken],
                     "on_release_artist", "ReleaseArtist", "artist")

\* scrape_release, one turn of the pagination loop past the POST:
\* token = response.results.last().unwrap().token panics on an empty page
scrape_release_thumbs(s, body) ==
    IF body.n = 0
       THEN [s EXCEPT !.pc = "panicked", !.last_more = body.more]
       ELSE Callback([s EXCEPT !.token = @ + 1, !.more = body.more,
                               !.last_more = body.more],
                     "on_fans", "Fans", "page")

\* Variant of scrape_fan_page: the embedded collection goes to on_collection
\* before on_fan is called
scrape_fan_page_m(s, body) ==
    Callback([s EXCEPT !.primary = TRUE,
                       !.more = body.more, !.last_more = body.more,
                       !.token = 0],
             "on_collection", "Collection", "collection")

\* struct FanPage as far as scrape_fan reads it: collection_data.sequence has
\* n entries, item_cache.collection holds the first `cached` of them, and
\* collection_count is the size the page states for the whole collection
FanPage(n, cached, count) ==
    [fmt |-> "fan", n |-> n, cached |-> cached, collection_count |-> count]
\* page.collection_count; a page of the general format stands for a fan page
\* that counts one item more than it embeds when it says more, and as many
\* otherwise
collection_count(body) ==
    IF body.fmt = "fan" THEN body.collection_count
    ELSE IF body.more THEN body.n + 1 ELSE body.n
\* page.item_cache.collection.remove(&s) is None for an entry of the sequence
missing(body) == body.fmt = "fan" /\ body.cached < body.n

\* Variant of scrape_fan_page: more is taken to be available whenever the page
\* counts any item at all
scrape_fan_page_count_m(s, body) ==
    LET called == [s EXCEPT !.cb = Append(@, "on_fan"), !.primary = TRUE]
        more_available == 0 < collection_count(body)
    IN  IF missing(body)
           THEN Fail(called)
           ELSE Callback([called EXCEPT !.more = more_available,
                                        !.last_more = more_available,
                                        !.token = 0],
                         "on_collection", "Collection", "collection")

\* scrape_fan past the page: on_fan stores the primary entity; the items are
\* rebuilt from the sequence ("cache missing collection item" is an Err);
\* more_available = items.len() < page.collection_count; then the embedded
\* collection goes to on_collection
scrape_fan_page(s, body) ==
    LET called == [s EXCEPT !.cb = Append(@, "on_fan"), !.primary = TRUE]
        more_available == body.n < collection_count(body)
    IN  IF missing(body)
           THEN Fail(called)
           ELSE Callback([called EXCEPT !.more = more_available,
                                        !.last_more = more_available,
                                        !.token = 0],
                         "on_collection", "Collection", "collection")

\* scrape_fan, one turn of the pagination loop past the POST
scrape_fan_items(s, body) ==
    Callback([s EXCEPT !.token = @ + 1, !.more = body.more,
                       !.last_more = body.more],
             "on_collection", "Collection", "page")

\* Variant of scrape_artist_page: the music grid items go to on_releases
\* without on_artist having been called
scrape_artist_page_m(s, body) ==
    Callback(s, "on_releases", "Releases", "grid")

\* scrape_artist past the page: on_artist stores the primary entity, then the
\* music grid items go to on_releases
scrape_artist_page(s, body) ==
    Callback([s EXCEPT !.cb = Append(@, "on_artist"), !.primary = TRUE],
             "on_releases", "Releases", "grid")

\* Variant of AfterSend: scrape_artist returns after the music grid, and the
\* client items are sent after the primary Response
AfterSend_m(s) ==
    CASE s.stage = "artist" -> Callback(s, "on_fans", "Fans", "reviews")
      [] s.stage = "reviews" -> Callback(s, "on_fans", "Fans", "thumbs")
      [] s.stage = "thumbs" -> Loop(s)
      [] s.stage = "collection" -> Loop(s)
      [] s.stage = "page" -> Loop([s EXCEPT !.batches = @ + 1])
      [] s.stage = "grid" ->
            [s EXCEPT !.pc = "send", !.resp = PrimaryOf(s.req.kind),
                      !.stage = "late"]
      [] s.stage = "late" -> Callback(s, "on_releases", "Releases", "primary")
      [] OTHER -> [s EXCEPT !.pc = "dec_processing", !.stage = "ok"]

\* Variant of AfterSend: scrape_artist returns after the music grid
AfterSend_grid_m(s) ==
    CASE s.stage = "artist" -> Callback(s, "on_fans", "Fans", "reviews")
      [] s.stage = "reviews" -> Callback(s, "on_fans", "Fans", "thumbs")
      [] s.stage = "thumbs" -> Loop(s)
      [] s.stage = "collection" -> Loop(s)
      [] s.stage = "page" -> Loop([s EXCEPT !.batches = @ + 1])
      [] s.stage = "grid" -> Return(s)
      [] OTHER -> [s EXCEPT !.pc = "dec_processing", !.stage = "ok"]

\* What the scraper does once a callback's send has returned Ok
AfterSend(s) ==
    CASE s.stage = "artist" -> Callback(s, "on_fans", "Fans", "reviews")
      [] s.stage = "reviews" -> Callback(s, "on_fans", "Fans", "thumbs")
      [] s.stage = "thumbs" -> Loop(s)
      [] s.stage = "collection" -> Loop(s)
      [] s.stage = "page" -> Loop([s EXCEPT !.batches = @ + 1])
      [] s.stage = "grid" -> Callback(s, "on_releases", "Releases", "client")
      [] s.stage = "client" -> Return(s)
      [] OTHER -> [s EXCEPT !.pc = "dec_processing", !.stage = "ok"]

\* The worker past rx.recv() in Scraper::get / Scraper::post: parse the body
\* and run the entry point up to its next blocking call
Scraped(s, res) ==
    IF res = Err \/ res = Junk
       THEN Fail(s)
       ELSE CASE s.req.kind = "Release" /\ s.pc = "wait_page" ->
                    scrape_release_page(s, res)
              [] s.req.kind = "Release" /\ s.pc = "wait_api" ->
                    scrape_release_thumbs(s, res)
              [] s.req.kind = "User" /\ s.pc = "wait_page" ->
                    scrape_fan_page(s, res)
              [] s.req.kind = "User" /\ s.pc = "wait_api" ->
                    scrape_fan_items(s, res)
              [] OTHER -> scrape_artist_page(s, res)

\* rx.recv() in Scraper::get / Scraper::post returns, and the entry point
\* (scrape_release, scrape_fan or scrape_artist) runs on
scrape(w) ==
    /\ worker[w].pc \in { "wait_page", "wait_api" }
    /\ reply[w] /= NoBody
    /\ worker' = [worker EXCEPT ![w] = Scraped(worker[w], reply[w])]
    /\ reply' = [reply EXCEPT ![w] = NoBody]
    /\ UNCHANGED << to_scrape, scraped, stats, emitted, web >>
    /\ UNCHANGED workerFrame
    /\ UNCHANGED gatewayFrame

\* Variant of send_response: a send on the closed channel is taken for sent
send_response_closed_m(w) ==
    /\ worker[w].pc = "send"
    /\ IF ~worker[w].primary
          THEN /\ worker' = [worker EXCEPT ![w].pc = "panicked"]
               /\ UNCHANGED << scraped, emitted >>
          ELSE /\ scraped_rx => Len(scraped) < ScrapedCapacity
               /\ scraped' =
                    IF scraped_rx
                       THEN Append(scraped,
                                   Response(worker[w].req, worker[w].resp))
                       ELSE scraped
               /\ emitted' =
                    [emitted EXCEPT
                        ![worker[w].req] = Append(@, worker[w].resp)]
               /\ worker' = [worker EXCEPT ![w] = AfterSend(worker[w])]
    /\ UNCHANGED << to_scrape, stats, web, reply >>
    /\ UNCHANGED workerFrame
    /\ UNCHANGED gatewayFrame

\* Variant of send_response: the send does not wait for room in the channel
send_response_m(w) ==
    /\ worker[w].pc = "send"
    /\ IF ~worker[w].primary
          THEN /\ worker' = [worker EXCEPT ![w].pc = "panicked"]
               /\ UNCHANGED << scraped, emitted >>
          ELSE IF ~scraped_rx
                  THEN /\ worker' = [worker EXCEPT ![w].pc = "exited"]
                       /\ UNCHANGED << scraped, emitted >>
                  ELSE /\ scraped' =
                            Append(scraped,
                                   Response(worker[w].req, worker[w].resp))
                       /\ emitted' =
                            [emitted EXCEPT
                                ![worker[w].req] = Append(@, worker[w].resp)]
                       /\ worker' = [worker EXCEPT ![w] = AfterSend(worker[w])]
    /\ UNCHANGED << to_scrape, stats, web, reply >>
    /\ UNCHANGED workerFrame
    /\ UNCHANGED gatewayFrame

\* The closures of handle_request: scraped.send(Response::...(primary.borrow()
\* .as_ref().unwrap().0.clone(), batch))?, and the final send of the primary
\* Response.  The unwrap panics on an empty RefCell; the send blocks while the
\* channel is full and fails once the Receiver is dropped, which ends run.
send_response(w) ==
    /\ worker[w].pc = "send"
    /\ IF ~worker[w].primary
          THEN /\ worker' = [worker EXCEPT ![w].pc = "panicked"]
               /\ UNCHANGED << scraped, emitted >>
          ELSE IF ~scraped_rx
                  THEN /\ worker' = [worker EXCEPT ![w].pc = "exited"]
                       /\ UNCHANGED << scraped, emitted >>
                  ELSE /\ Len(scraped) < ScrapedCapacity
                       /\ scraped' =
                            Append(scraped,
                                   Response(worker[w].req, worker[w].resp))
                       /\ emitted' =
                            [emitted EXCEPT
                                ![worker[w].req] = Append(@, worker[w].resp)]
                       /\ worker' = [worker EXCEPT ![w] = AfterSend(worker[w])]
    /\ UNCHANGED << to_scrape, stats, web, reply >>
    /\ UNCHANGED workerFrame
    /\ UNCHANGED gatewayFrame

\* run: stats.items_processing.fetch_sub(1)
run_dec_processing(w) ==
    /\ worker[w].pc = "dec_processing"
    /\ stats' = Dec("items_processing")
    /\ worker' = [worker EXCEPT ![w].pc = "inc_completed"]
    /\ UNCHANGED << to_scrape, scraped, emitted, web, reply >>
    /\ UNCHANGED workerFrame
    /\ UNCHANGED gatewayFrame

\* run: stats.items_completed.fetch_add(1), and round the loop
run_inc_completed(w) ==
    /\ worker[w].pc = "inc_completed"
    /\ stats' = Inc("items_completed")
    /\ worker' = [worker EXCEPT ![w] = IdleWorker]
    /\ UNCHANGED << to_scrape, scraped, emitted, web, reply >>
    /\ UNCHANGED workerFrame
    /\ UNCHANGED gatewayFrame

run(w) ==
    \/ run_recv(w)
    \/ run_dec_queued(w)
    \/ run_inc_processing(w)
    \/ get(w)
    \/ post(w)
    \/ scrape(w)
    \/ send_response(w)
    \/ run_dec_processing(w)
    \/ run_inc_completed(w)

\* ------------------------------------------------- Gateway: web/cache.rs
\* What no fetch changes: the variables of the Router and the workers, and the
\* schema of the cache file, which is settled when the cache is opened
gatewayOuter ==
    << done, to_scrape_tx, to_scrape, scraped_rx, scraped, thread, caller,
       worker, submits, pushed, emitted, received, cache, release_page >>

Row(key, response) == [key |-> key, response |-> response]

\* Variant of Matching: `data = :data` in place of `data is :data`, which no
\* row with a NULL data satisfies
Matching_m(rows, key) ==
    { i \in 1 .. Len(rows) : rows[i].key = key /\ key.data /= Null }

\* Cache::get_from_cache: select ... where url = :url and method = :method and
\* data is :data; query_row takes the first row, optional() makes none a miss
Matching(rows, key) == { i \in 1 .. Len(rows) : rows[i].key = key }
Lookup(rows, key) ==
    IF Matching(rows, key) = {}
       THEN NoBody
       ELSE rows[CHOOSE i \in Matching(rows, key) :
                    \A j \in Matching(rows, key) : i <= j].response

\* create unique index pages_index on pages (url, method, data): SQLite takes
\* NULLs in a unique index to be distinct, so only a key with data collides
Violates(rows, key) == key.data /= Null /\ Matching(rows, key) /= {}

\* Variant of cache_run: the thread takes the most recent job of the channel
\* and leaves the channel as it is
cache_run_m ==
    /\ cache_thread.pc = "recv"
    /\ web /= <<>>
    /\ cache_thread' = [pc |-> "lookup", job |-> web[Len(web)]]
    /\ stats' = Inc("web_requests")
    /\ UNCHANGED << web, reply, server_requests, server_reply, web_thread,
                    pages, elapsed, fetched, last_gap >>
    /\ UNCHANGED gatewayOuter

\* cache.rs run: the next job of the web channel, and the first statement of
\* Cache::get / Cache::post: stats.web_requests.fetch_add(1)
cache_run ==
    /\ cache_thread.pc = "recv"
    /\ web /= <<>>
    /\ web' = Tail(web)
    /\ cache_thread' = [pc |-> "lookup", job |-> Head(web)]
    /\ stats' = Inc("web_requests")
    /\ UNCHANGED << reply, server_requests, server_reply, web_thread, pages,
                    elapsed, fetched, last_gap >>
    /\ UNCHANGED gatewayOuter

\* Variant of get_from_cache: a miss is not counted
get_from_cache_m ==
    /\ cache_thread.pc = "lookup"
    /\ LET key == cache_thread.job.key
           hit == Lookup(pages, key)
       IN  IF hit /= NoBody
              THEN /\ stats' = Inc("web_cache_hits")
                   /\ reply' = [reply EXCEPT ![cache_thread.job.from] = hit]
                   /\ fetched' =
                        [fetched EXCEPT
                            ![key] = Append(@, [src |-> "cache", res |-> hit])]
                   /\ cache_thread' = [pc |-> "recv", job |-> NoJob]
                   /\ UNCHANGED server_requests
              ELSE /\ UNCHANGED stats
                   /\ server_requests' =
                        Append(server_requests, cache_thread.job)
                   /\ cache_thread' = [cache_thread EXCEPT !.pc = "wait"]
                   /\ UNCHANGED << reply, fetched >>
    /\ UNCHANGED << web, server_reply, web_thread, pages, elapsed, last_gap >>
    /\ UNCHANGED gatewayOuter

\* Variant of get_from_cache: the job goes to the network thread whether or
\* not a row answers it
get_from_cache_client_m ==
    /\ cache_thread.pc = "lookup"
    /\ LET key == cache_thread.job.key
           hit == Lookup(pages, key)
       IN  /\ stats' =
                IF hit /= NoBody THEN Inc("web_cache_hits")
                                 ELSE Inc("web_cache_misses")
           /\ server_requests' = Append(server_requests, cache_thread.job)
           /\ cache_thread' = [cache_thread EXCEPT !.pc = "wait"]
           /\ UNCHANGED << reply, fetched >>
    /\ UNCHANGED << web, server_reply, web_thread, pages, elapsed, last_gap >>
    /\ UNCHANGED gatewayOuter

\* Cache::get_from_cache and what Cache::get / Cache::post do with its answer:
\* a hit is sent back on the job's response channel, a miss goes on to
\* get_from_server / post_to_server, which sends the job to the network thread
get_from_cache ==
    /\ cache_thread.pc = "lookup"
    /\ LET key == cache_thread.job.key
           hit == Lookup(pages, key)
       IN  IF hit /= NoBody
              THEN /\ stats' = Inc("web_cache_hits")
                   /\ reply' = [reply EXCEPT ![cache_thread.job.from] = hit]
                   /\ fetched' =
                        [fetched EXCEPT
                            ![key] = Append(@, [src |-> "cache", res |-> hit])]
                   /\ cache_thread' = [pc |-> "recv", job |-> NoJob]
                   /\ UNCHANGED server_requests
              ELSE /\ stats' = Inc("web_cache_misses")
                   /\ server_requests' =
                        Append(server_requests, cache_thread.job)
                   /\ cache_thread' = [cache_thread EXCEPT !.pc = "wait"]
                   /\ UNCHANGED << reply, fetched >>
    /\ UNCHANGED << web, server_reply, web_thread, pages, elapsed, last_gap >>
    /\ UNCHANGED gatewayOuter

\* Variant of add_to_cache: what came back is stored whatever it is
add_to_cache_err_m ==
    /\ cache_thread.pc = "wait"
    /\ server_reply /= NoBody
    /\ LET key == cache_thread.job.key
       IN  /\ pages' = Append(pages, Row(key, server_reply))
           /\ reply' = [reply EXCEPT ![cache_thread.job.from] = server_reply]
    /\ server_reply' = NoBody
    /\ cache_thread' = [pc |-> "recv", job |-> NoJob]
    /\ UNCHANGED << web, server_requests, web_thread, stats, elapsed,
                    fetched, last_gap >>
    /\ UNCHANGED gatewayOuter

\* Variant of add_to_cache: the body is sent back and not stored
add_to_cache_m ==
    /\ cache_thread.pc = "wait"
    /\ server_reply /= NoBody
    /\ reply' = [reply EXCEPT ![cache_thread.job.from] = server_reply]
    /\ server_reply' = NoBody
    /\ cache_thread' = [pc |-> "recv", job |-> NoJob]
    /\ UNCHANGED << web, server_requests, web_thread, stats, elapsed,
                    fetched, last_gap, pages >>
    /\ UNCHANGED gatewayOuter

\* Variant of add_to_cache: a failed call is remembered, as a row without a
\* page, and the error sent back
add_to_cache_negative_m ==
    /\ cache_thread.pc = "wait"
    /\ server_reply /= NoBody
    /\ LET key == cache_thread.job.key
       IN  /\ pages' =
                IF Violates(pages, key) THEN pages
                ELSE Append(pages,
                            Row(key, IF server_reply = Err THEN Junk
                                                           ELSE server_reply))
           /\ reply' =
                [reply EXCEPT
                    ![cache_thread.job.from] =
                        IF Violates(pages, key) THEN Err ELSE server_reply]
    /\ server_reply' = NoBody
    /\ cache_thread' = [pc |-> "recv", job |-> NoJob]
    /\ UNCHANGED << web, server_requests, web_thread, stats, elapsed,
                    fetched, last_gap >>
    /\ UNCHANGED gatewayOuter

\* Cache::get / Cache::post past get_from_server: an error goes back as it is;
\* a body is stored by add_to_cache (insert into pages ...) and sent back
add_to_cache ==
    /\ cache_thread.pc = "wait"
    /\ server_reply /= NoBody
    /\ LET key == cache_thread.job.key
           failed == server_reply = Err \/ Violates(pages, key)
       IN  /\ pages' =
                IF failed THEN pages
                          ELSE Append(pages, Row(key, server_reply))
           /\ reply' =
                [reply EXCEPT
                    ![cache_thread.job.from] =
                        IF failed THEN Err ELSE server_reply]
    /\ server_reply' = NoBody
    /\ cache_thread' = [pc |-> "recv", job |-> NoJob]
    /\ UNCHANGED << web, server_requests, web_thread, stats, elapsed,
                    fetched, last_gap >>
    /\ UNCHANGED gatewayOuter

\* Cache::add_to_cache on its own, the cache's store: insert into pages (url,
\* method, data, retrieved, response) for any key and body, whatever the rows
\* already there; the insert is refused by pages_index or adds the row
store(key, response) ==
    /\ Len(pages) < MaxRows
    /\ pages' =
        IF Violates(pages, key) THEN pages
                                ELSE Append(pages, Row(key, response))
    /\ UNCHANGED << web, reply, cache_thread, server_requests, server_reply,
                    web_thread, stats, elapsed, fetched, last_gap >>
    /\ UNCHANGED gatewayOuter

\* ------------------------------------------- Cache::new: the migrations
\* Variant of new_migration: `version <= index` in place of `version < index`
new_migration_m ==
    /\ cache.pc = "migrate"
    /\ cache.index <= NumMigrations
    /\ cache' =
        IF cache.version <= cache.index
           THEN [cache EXCEPT !.schema = Append(@, cache.index),
                              !.user_version = cache.index,
                              !.index = @ + 1]
           ELSE [cache EXCEPT !.index = @ + 1]
    /\ UNCHANGED << done, to_scrape_tx, to_scrape, scraped_rx, scraped, stats,
                    thread, caller, worker, submits, pushed, emitted,
                    received, web, reply, cache_thread, server_requests,
                    server_reply, web_thread, pages, elapsed, fetched,
                    last_gap, release_page >>

\* rusqlite::Connection::open, cache.transaction() and
\* let version: u32 = tx.pragma_query_value(None, "user_version", ...)
new_transaction ==
    /\ cache.pc = "closed"
    /\ cache.opens < MaxOpens
    /\ cache' =
        [cache EXCEPT !.pc = "migrate", !.version = cache.user_version,
                      !.index = 1, !.opens = @ + 1]
    /\ UNCHANGED << done, to_scrape_tx, to_scrape, scraped_rx, scraped, stats,
                    thread, caller, worker, submits, pushed, emitted,
                    received, web, reply, cache_thread, server_requests,
                    server_reply, web_thread, pages, elapsed, fetched,
                    last_gap, release_page >>

\* One turn of `for (migration, index) in migrations.into_iter().zip(1u32..)`:
\* if version < index { tx.execute(migration, ())?;
\*                      tx.pragma_update(None, "user_version", index)?; }
new_migration ==
    /\ cache.pc = "migrate"
    /\ cache.index <= NumMigrations
    /\ cache' =
        IF cache.version < cache.index
           THEN [cache EXCEPT !.schema = Append(@, cache.index),
                              !.user_version = cache.index,
                              !.index = @ + 1]
           ELSE [cache EXCEPT !.index = @ + 1]
    /\ UNCHANGED << done, to_scrape_tx, to_scrape, scraped_rx, scraped, stats,
                    thread, caller, worker, submits, pushed, emitted,
                    received, web, reply, cache_thread, server_requests,
                    server_reply, web_thread, pages, elapsed, fetched,
                    last_gap, release_page >>

\* tx.commit()? past the loop
new_commit ==
    /\ cache.pc = "migrate"
    /\ cache.index = NumMigrations + 1
    /\ cache' = [cache EXCEPT !.pc = "open"]
    /\ UNCHANGED << done, to_scrape_tx, to_scrape, scraped_rx, scraped, stats,
                    thread, caller, worker, submits, pushed, emitted,
                    received, web, reply, cache_thread, server_requests,
                    server_reply, web_thread, pages, elapsed, fetched,
                    last_gap, release_page >>

\* The process ends and the Connection is dropped; the file stays, for the
\* next run to open
connection_drop ==
    /\ cache.pc = "open"
    /\ cache' = [cache EXCEPT !.pc = "closed"]
    /\ UNCHANGED << done, to_scrape_tx, to_scrape, scraped_rx, scraped, stats,
                    thread, caller, worker, submits, pushed, emitted,
                    received, web, reply, cache_thread, server_requests,
                    server_reply, web_thread, pages, elapsed, fetched,
                    last_gap, release_page >>

\* -------------------------- network thread: web/thread.rs and web/client.rs
\* The thread of web/thread.rs hands each job to the Client.  The cache is the
\* Gateway's (web/cache.rs), in front of this thread; of web/client.rs the
\* model takes what the Client does for a job that reaches it: check_delay and
\* the HTTP call of get_from_server / post_to_server.
\* What the origin may answer to a call: any body or a failure; the origin
\* has at most MaxPages continuation pages, so the last one says no more.
Origin(key, site) ==
    IF key.method = "post"
       THEN { b \in site : /\ b.fmt /= "fan"
                           /\ b.more => key.data[2] + 1 < MaxPages
                           /\ b /= BadType }
       ELSE site

\* Variant of check_delay: the time already elapsed is taken for the delay
check_delay_m ==
    /\ web_thread.pc = "recv"
    /\ server_requests /= <<>>
    /\ server_requests' = Tail(server_requests)
    /\ web_thread' =
        [pc |-> "sleep", job |-> Head(server_requests),
         delay |-> IF elapsed <= REQUEST_DELAY THEN elapsed ELSE 0]
    /\ UNCHANGED << web, reply, cache_thread, server_reply, pages, stats,
                    elapsed, fetched, last_gap >>
    /\ UNCHANGED gatewayOuter

\* web/thread.rs run: the next job, and Client::check_delay up to its sleep:
\* REQUEST_DELAY.checked_sub(self.last_request.get().elapsed())
check_delay ==
    /\ web_thread.pc = "recv"
    /\ server_requests /= <<>>
    /\ server_requests' = Tail(server_requests)
    /\ web_thread' =
        [pc |-> "sleep", job |-> Head(server_requests),
         delay |-> IF elapsed <= REQUEST_DELAY
                      THEN REQUEST_DELAY - elapsed ELSE 0]
    /\ UNCHANGED << web, reply, cache_thread, server_reply, pages, stats,
                    elapsed, fetched, last_gap >>
    /\ UNCHANGED gatewayOuter

\* Client::check_delay: std::thread::sleep(delay) runs to its end
sleep ==
    /\ web_thread.pc = "sleep"
    /\ web_thread.delay > 0
    /\ elapsed' = elapsed + web_thread.delay
    /\ web_thread' = [web_thread EXCEPT !.delay = 0]
    /\ UNCHANGED << web, reply, cache_thread, server_requests, server_reply,
                    pages, stats, fetched, last_gap >>
    /\ UNCHANGED gatewayOuter

\* Variant of last_request_set: the call starts without the time being recorded
last_request_set_m ==
    /\ web_thread.pc = "sleep"
    /\ web_thread.delay = 0
    /\ web_thread' = [web_thread EXCEPT !.pc = "send"]
    /\ UNCHANGED << web, reply, cache_thread, server_requests, server_reply,
                    pages, stats, fetched, elapsed, last_gap >>
    /\ UNCHANGED gatewayOuter

\* Client::check_delay past std::thread::sleep(delay):
\* self.last_request.set(Instant::now())
last_request_set ==
    /\ web_thread.pc = "sleep"
    /\ web_thread.delay = 0
    /\ last_gap' = elapsed
    /\ elapsed' = 0
    /\ web_thread' = [web_thread EXCEPT !.pc = "send"]
    /\ UNCHANGED << web, reply, cache_thread, server_requests, server_reply,
                    pages, stats, fetched >>
    /\ UNCHANGED gatewayOuter

\* Client::get_from_server / post_to_server past check_delay: the HTTP call,
\* and web/thread.rs sending its result back
get_from_server(site) ==
    /\ web_thread.pc = "send"
    /\ \E res \in Origin(web_thread.job.key, site) :
        /\ server_reply' = res
        /\ fetched' =
            [fetched EXCEPT
                ![web_thread.job.key] =
                    Append(@, [src |-> "net", res |-> res])]
    /\ web_thread' = [pc |-> "recv", job |-> NoJob, delay |-> 0]
    /\ UNCHANGED << web, reply, cache_thread, server_requests, pages, stats,
                    elapsed, last_gap >>
    /\ UNCHANGED gatewayOuter

\* Time passes: Instant::now() moves on and a sleeping thread's delay runs down
Tick ==
    /\ elapsed < MaxElapsed
    /\ elapsed' = elapsed + TickMs
    /\ web_thread' =
        [web_thread EXCEPT
            !.delay = IF @ > TickMs THEN @ - TickMs ELSE 0]
    /\ UNCHANGED << web, reply, cache_thread, server_requests, server_reply,
                    pages, stats, fetched, last_gap >>
    /\ UNCHANGED gatewayOuter

\* ---------------------------------------------------------- specification
\* The three threads behind the Router's channels
Background ==
    \/ \E w \in Workers : run(w)
    \/ cache_run
    \/ get_from_cache
    \/ add_to_cache
    \/ check_delay
    \/ sleep
    \/ last_request_set

\* The pipeline while the Router is alive: every kind of Request, an origin
\* that may answer anything, a consumer that polls when it likes.
Next ==
    \/ \E c \in Callers : send(c, Pool, MaxSubmits)
    \/ try_recv
    \/ Background
    \/ get_from_server(Results)

Spec == Init /\ [][Next]_vars

\* The same pipeline with the clock running on its own as well: time also
\* passes while no thread sleeps.
NextTimed ==
    \/ \E c \in Callers : send(c, Pool, MaxSubmits)
    \/ try_recv
    \/ Background
    \/ get_from_server(Results)
    \/ Tick

SpecTimed == Init /\ [][NextTimed]_vars

\* Two releases and a fan, with one more submission than there are workers,
\* on an origin whose lists promise more and then run out on an empty page.
Releases ==
    { Request("Release", "x"), Request("Release", "y"), Request("User", "x") }
RunsOut == { Page(1, TRUE), Page(0, FALSE) }

NextReleases ==
    \/ \E c \in Callers : send(c, Releases, NumWorkers + 1)
    \/ try_recv
    \/ Background
    \/ get_from_server(RunsOut)

SpecReleases == Init /\ [][NextReleases]_vars

\* The pipeline with the Router being dropped at any moment.
NextDrop ==
    \/ Next
    \/ drop_take_tx
    \/ drop_take_rx
    \/ drop_join

SpecDrop == Init /\ [][NextDrop]_vars

\* One more submission than there are workers, on an origin that answers
\* every call with a page of one item, with the threads that call send
\* scheduled again and again and nothing said of the workers, the Gateway or
\* the consumer
OneItem == { Page(1, m) : m \in BOOLEAN }

NextSubmit ==
    \/ \E c \in Callers : send(c, Pool, NumWorkers + 1)
    \/ try_recv
    \/ Background
    \/ get_from_server(OneItem)

SpecSubmit ==
    /\ Init
    /\ [][NextSubmit]_vars
    /\ \A c \in Callers :
        WF_vars(send_queued(c) \/ send_push(c) \/ send_duplicate(c))

\* The pipeline with a consumer that keeps polling: a Response in the channel
\* is taken by try_recv sooner or later.
SpecPolled == Spec /\ WF_vars(try_recv)

\* The Router being dropped, with every thread scheduled again and again:
\* Drop runs to its end, the workers run, and the calls into the Gateway and
\* to the origin return.
SpecShutdown ==
    /\ SpecDrop
    /\ WF_vars(drop_take_rx)
    /\ WF_vars(drop_join)
    /\ \A w \in Workers : WF_vars(run(w))
    /\ WF_vars(cache_run)
    /\ WF_vars(get_from_cache)
    /\ WF_vars(add_to_cache)
    /\ WF_vars(check_delay)
    /\ WF_vars(sleep)
    /\ WF_vars(last_request_set)
    /\ WF_vars(get_from_server(Results))

\* The pipeline with the two threads of the Gateway scheduled again and again
\* and an origin whose calls return (reqwest's blocking Client gives up on a
\* call that does not)
SpecServed ==
    /\ Spec
    /\ WF_vars(cache_run)
    /\ WF_vars(get_from_cache)
    /\ WF_vars(add_to_cache)
    /\ WF_vars(check_delay)
    /\ WF_vars(sleep)
    /\ WF_vars(last_request_set)
    /\ WF_vars(get_from_server(Results))

\* The cache alone: store called with any key and body, in any order, on a
\* cache that starts empty.
NextStore == \E key \in Keys, response \in Bodies : store(key, response)

SpecStore == Init /\ [][NextStore]_vars

\* Cache::new on a cache file left at any version by an earlier build, and the
\* file opened again by the next run.
InitOpen ==
    /\ Pipeline
    /\ cache \in { Stored(v) : v \in 0 .. NumMigrations }
    /\ release_page = NoPage

NextOpen ==
    \/ new_transaction
    \/ new_migration
    \/ new_commit
    \/ connection_drop

SpecOpen == InitOpen /\ [][NextOpen]_vars

\* The pipeline on an origin that also serves release pages of an unknown
\* item_type.
NextTyped ==
    \/ \E c \in Callers : send(c, Pool, MaxSubmits)
    \/ try_recv
    \/ Background
    \/ get_from_server(Results \cup { BadType })

SpecTyped == Init /\ [][NextTyped]_vars

\* ================================================================== claims
Idle(c) == caller[c].pc = "idle"
\* a caller is inside send with a new Request it has not pushed yet
InSend(r) ==
    \E c \in Callers : caller[c].req = r /\ caller[c].pc \in { "queued", "push" }
Last(seq) == seq[Len(seq)]
Entries(src) ==
    { e \in Keys \X (1 .. 2 * (MaxSubmits + MaxPages + NumWorkers)) :
        /\ e[2] <= Len(fetched[e[1]])
        /\ fetched[e[1]][e[2]].src = src }
Blocked(w) == worker[w].pc = "send" /\ ~ENABLED send_response(w)

\* C1: every distinct Request submitted is on the input queue exactly once: a
\* Request whose send has returned was pushed once, no other Request was
\* pushed, and none is pushed twice.
C1_EachDistinctRequestPushedOnce ==
    \A r \in Requests :
        pushed[r] = IF r \in done /\ ~InSend(r) THEN 1 ELSE 0

\* C2: the duplicate counter is the number of submit calls minus the number of
\* distinct Requests (less the calls that are about to count themselves), and
\* the step that counts a duplicate changes neither the queued counter nor the
\* input queue.
C2_DuplicateCount ==
    /\ [](stats.items_duplicate
            = submits - Cardinality(done)
                - Cardinality({ c \in Callers : caller[c].pc = "duplicate" }))
    /\ [][(stats.items_duplicate' /= stats.items_duplicate)
            => /\ stats.items_duplicate' = stats.items_duplicate + 1
               /\ stats.items_queued' = stats.items_queued
               /\ to_scrape' = to_scrape
               /\ pushed' = pushed]_vars

C2_Witness ==
    /\ \A c \in Callers : Idle(c)
    /\ stats.items_duplicate = 1
    /\ submits = 2
    /\ Cardinality(done) = 1

\* C3 as stated: in a Release scrape on_owning_artist (on_release_artist) fires
\* before every on_relationship_batch (on_fans), and on_primary (on_release)
\* fires after all of them.
C3_PrimaryCallbackLast ==
    \A w \in Workers :
        worker[w].req.kind = "Release" =>
            \A i, j \in 1 .. Len(worker[w].cb) :
                /\ (worker[w].cb[i] = "on_release_artist"
                        /\ worker[w].cb[j] = "on_fans") => i < j
                /\ (worker[w].cb[i] /= "on_release"
                        /\ worker[w].cb[j] = "on_release") => i < j

\* C3 amended: in a Release scrape on_primary fires first, on_owning_artist
\* second, and every callback after that is an on_relationship_batch.
C3_ReleaseCallbackOrder ==
    \A w \in Workers :
        worker[w].req.kind = "Release" =>
            \A i \in 1 .. Len(worker[w].cb) :
                worker[w].cb[i] =
                    IF i = 1 THEN "on_release"
                    ELSE IF i = 2 THEN "on_release_artist" ELSE "on_fans"

C3_Witness ==
    \E w \in Workers :
        /\ worker[w].req.kind = "Release"
        /\ worker[w].stage = "ok"
        /\ Len(worker[w].cb) = 6

\* C4 as stated: in an Artist and in a User scrape every
\* on_relationship_batch fires before on_primary.
C4_PrimaryCallbackLast ==
    \A w \in Workers :
        worker[w].req.kind \in { "Artist", "User" } =>
            \A i, j \in 1 .. Len(worker[w].cb) :
                (worker[w].cb[i] \in { "on_releases", "on_collection" }
                    /\ worker[w].cb[j] \in { "on_artist", "on_fan" }) => i < j

\* C4 amended: in an Artist and in a User scrape on_primary fires first and
\* every callback after it is an on_relationship_batch.
C4_PrimaryCallbackFirst ==
    \A w \in Workers :
        \A i \in 1 .. Len(worker[w].cb) :
            /\ worker[w].req.kind = "Artist" =>
                worker[w].cb[i] = IF i = 1 THEN "on_artist" ELSE "on_releases"
            /\ worker[w].req.kind = "User" =>
                worker[w].cb[i] = IF i = 1 THEN "on_fan" ELSE "on_collection"

C4_Witness ==
    \E w, v \in Workers :
        /\ worker[w].req.kind = "Artist"
        /\ worker[w].stage = "ok"
        /\ Len(worker[w].cb) = 3
        /\ worker[v].req.kind = "User"
        /\ worker[v].stage = "primary"
        /\ Len(worker[v].cb) = 4

\* C5: the Responses of one Request are relationship batches followed, when
\* the scrape succeeds, by the one primary Response of its kind, which is the
\* last; the consumer receives them in that order.
C5_PrimaryResponseLast ==
    /\ \A r \in Requests :
        /\ \A i \in 1 .. Len(emitted[r]) :
            IF i = Len(emitted[r]) /\ IsPrimary(emitted[r][i])
               THEN emitted[r][i] = PrimaryOf(r.kind)
               ELSE IsBatch(emitted[r][i])
        /\ Len(received[r]) <= Len(emitted[r])
        /\ received[r] = SubSeq(emitted[r], 1, Len(received[r]))
    /\ \A w \in Workers :
        worker[w].stage = "ok" =>
            /\ emitted[worker[w].req] /= <<>>
            /\ Last(emitted[worker[w].req]) = PrimaryOf(worker[w].req.kind)

C5_Witness ==
    \E w, v \in Workers :
        /\ worker[w].stage = "ok"
        /\ Len(emitted[worker[w].req]) >= 4
        /\ worker[v].stage = "page"
        /\ Len(emitted[worker[v].req]) >= 1
        /\ Len(received[worker[v].req]) < Len(emitted[worker[v].req])

\* C6: once a fetch of a key has succeeded, every later fetch of that key is
\* served by the cache with the body of the first; cache-hits counts the
\* fetches served by the cache and cache-misses those sent to the network.
C6_CacheIdempotence ==
    /\ \A k \in Keys :
        \A i, j \in 1 .. Len(fetched[k]) :
            (i < j /\ fetched[k][i].res /= Err) =>
                /\ fetched[k][j].src = "cache"
                /\ fetched[k][j].res = fetched[k][i].res
    /\ stats.web_cache_hits = Cardinality(Entries("cache"))
    /\ stats.web_cache_misses =
        Cardinality(Entries("net"))
            + (IF cache_thread.pc = "wait" /\ server_reply = NoBody
                  THEN 1 ELSE 0)

C6_Witness ==
    \E k \in Keys :
        /\ Len(fetched[k]) = 2
        /\ fetched[k][1] = [src |-> "net", res |-> Page(1, TRUE)]
        /\ fetched[k][2] = [src |-> "cache", res |-> Page(1, TRUE)]
        /\ stats.web_cache_hits = 1
        /\ stats.web_cache_misses > 1

\* C7: workers that ask for the same key at the same time cause one network
\* call that succeeds at most: the Gateway serves one job at a time, the others
\* wait, and no network call for a key follows one that succeeded.
C7_SingleFlight ==
    /\ \A k \in Keys :
        \A i, j \in 1 .. Len(fetched[k]) :
            (i < j /\ fetched[k][i].src = "net" /\ fetched[k][i].res /= Err)
                => fetched[k][j].src /= "net"
    /\ Len(server_requests) + (IF web_thread.pc = "recv" THEN 0 ELSE 1) <= 1
    /\ (web_thread.pc /= "recv" \/ server_requests /= <<>>)
            => cache_thread.pc = "wait"

C7_Witness ==
    \E w, v \in Workers :
        /\ w /= v
        /\ worker[w].pc = "wait_page"
        /\ worker[v].pc = "wait_page"
        /\ reply[w] = Page(1, TRUE)
        /\ reply[v] = Page(1, TRUE)
        /\ Len(fetched[GetKey(worker[w].req.url)]) = 2
        /\ fetched[GetKey(worker[w].req.url)][1].src = "net"
        /\ fetched[GetKey(worker[w].req.url)][2].src = "cache"
        /\ stats.web_cache_misses = 1

\* C8: a network call starts at least REQUEST_DELAY after the recorded time of
\* the call before it, and while the client sleeps the rest of its sleep
\* covers what is missing of REQUEST_DELAY.
C8_RateLimit ==
    /\ last_gap >= REQUEST_DELAY
    /\ web_thread.pc = "sleep" => elapsed + web_thread.delay >= REQUEST_DELAY

C8_Witness ==
    /\ web_thread.pc = "sleep"
    /\ web_thread.delay > 0
    /\ web_thread.delay < REQUEST_DELAY
    /\ Entries("net") /= {}

\* C9: when the pagination of a Release or User scrape is over on a source
\* whose last page said no more are available, the scrape has emitted one
\* batch per continuation call.
C9_OneBatchPerPage ==
    \A w \in Workers :
        (/\ worker[w].req.kind \in { "Release", "User" }
         /\ ~worker[w].last_more
         /\ (worker[w].pc = "panicked" \/ worker[w].stage \in { "primary", "ok" }))
            => /\ worker[w].batches = worker[w].calls
               /\ worker[w].calls <= MaxPages

Buffered(r) ==
    LET OfR(e) == e.req = r
        held == SelectSeq(scraped, OfR)
    IN  [i \in 1 .. Len(held) |-> held[i].tag]

\* C11: no Response is dropped or duplicated: what a worker has emitted for a
\* Request is what the consumer has received followed by what the channel
\* holds; with a consumer that keeps polling every Response emitted is
\* received in the end; and a worker that wants to emit is not blocked once the
\* channel has room again.
C11_NoResponseDropped ==
    /\ [](\A r \in Requests : emitted[r] = received[r] \o Buffered(r))
    /\ [](\A w \in Workers :
            (worker[w].pc = "send" /\ Len(scraped) < ScrapedCapacity)
                => ~Blocked(w))
    /\ \A r \in Pool :
        (Len(received[r]) < Len(emitted[r]))
            ~> (Len(received[r]) = Len(emitted[r]))

C11_Witness ==
    \E w \in Workers :
        /\ worker[w].pc = "send"
        /\ scraped = <<>>
        /\ Len(received[worker[w].req]) = 3
        /\ Len(emitted[worker[w].req]) = 3
        /\ \E v \in Workers : v /= w /\ worker[v].pc = "send"

\* C12: once the Router is being dropped, every worker thread terminates and
\* the join returns, whatever the workers were doing when the drop began.
C12_ShutdownTerminates ==
    (thread = "dropping")
        ~> (/\ thread \in { "joined", "resume_unwind" }
            /\ \A w \in Workers : Terminated(w))

C12_Witness ==
    /\ thread = "joined"
    /\ \E w, v \in Workers :
        /\ worker[w].pc = "exited"
        /\ worker[w].stage \notin { "none", "failed", "ok" }
        /\ worker[v].pc = "exited"
        /\ worker[v].stage = "none"

\* C13 as stated: once the drop of the Router has begun no worker takes a
\* Request off the input queue, so no worker holds a Request it took after the
\* drop began.
C13_NoNewWorkAfterShutdown ==
    \A w \in Workers : ~worker[w].late

\* C13 amended: once the drop of the Router has begun no Request is added to
\* the input queue and no Response reaches the consumer; the workers still
\* take the waiting Requests off the queue, in order; once the output Receiver
\* is closed no Response is pushed, and a worker ends its thread at its first
\* push.
C13_DrainAfterShutdown ==
    [][thread /= "alive" =>
        /\ pushed' = pushed
        /\ received' = received
        /\ \/ to_scrape' = to_scrape
           \/ to_scrape /= <<>> /\ to_scrape' = Tail(to_scrape)
        /\ ~scraped_rx =>
            /\ emitted' = emitted
            /\ scraped' = <<>>
            /\ \A w \in Workers :
                (worker[w].pc = "send" /\ worker'[w] /= worker[w])
                    => worker'[w].pc = "exited"]_vars

C13_Witness ==
    /\ thread = "joined"
    /\ to_scrape = <<>>
    /\ \E w \in Workers :
        /\ worker[w].late
        /\ worker[w].pc = "exited"
        /\ worker[w].cb /= <<>>
        /\ emitted[worker[w].req] = <<>>
        /\ fetched[GetKey(worker[w].req.url)] /= <<>>

\* C14: when the drop of the Router is over, it has ended by re-raising a
\* panic exactly if a worker thread ended by a panic, and normally exactly if
\* every worker thread left its loop.
C14_PanicReraised ==
    /\ thread = "resume_unwind" => \E w \in Workers : worker[w].pc = "panicked"
    /\ thread = "joined" => \A w \in Workers : worker[w].pc = "exited"

C14_Witness ==
    /\ thread = "resume_unwind"
    /\ \E w, v \in Workers :
        /\ worker[w].pc = "panicked"
        /\ worker[v].pc = "exited"

\* The Request has been handled to its end and nothing will be sent for it:
\* it was pushed, it is neither in the queue nor with a worker, and its
\* Responses do not end with the primary one.
Held(r) == \E w \in Workers : worker[w].req = r
Queued(r) == \E i \in 1 .. Len(to_scrape) : to_scrape[i] = r
FailedRequest(r) ==
    /\ pushed[r] = 1
    /\ ~Held(r)
    /\ ~Queued(r)
    /\ emitted[r] = <<>> \/ ~IsPrimary(Last(emitted[r]))

C16_OnlyClosedChannelEndsWorker ==
    \A w \in Workers :
        Terminated(w) =>
            /\ worker[w].pc = "exited"
            /\ ~scraped_rx \/ (~to_scrape_tx /\ to_scrape = <<>>)

\* C17: a Request whose processing failed is never in the input queue or with
\* a worker again; it stays in the seen-set, so a caller that submits it again
\* is on the duplicate path, which increments the duplicate count and enqueues
\* nothing; no Request is pushed onto the input queue twice.
C17_FailedNeverProcessedAgain ==
    /\ [](\A r \in Requests :
            /\ pushed[r] <= 1
            /\ FailedRequest(r) => r \in done
            /\ \A c \in Callers :
                (caller[c].req = r /\ FailedRequest(r))
                    => caller[c].pc = "duplicate")
    /\ [][\A r \in Requests : FailedRequest(r) => FailedRequest(r)']_vars
    /\ [][\A c \in Callers :
            (caller[c].pc = "duplicate" /\ caller'[c] /= caller[c]) =>
                /\ stats'.items_duplicate = stats.items_duplicate + 1
                /\ stats'.items_queued = stats.items_queued
                /\ to_scrape' = to_scrape
                /\ pushed' = pushed
                /\ caller'[c].pc = "idle"]_vars

C17_Witness ==
    \E r \in Requests :
        /\ FailedRequest(r)
        /\ emitted[r] = <<>>
        /\ stats.items_completed = 1
        /\ stats.items_duplicate = 1
        /\ stats.items_queued = 0
        /\ pushed[r] = 1
        /\ submits = 2
        /\ \A c \in Callers : Idle(c)

\* C18 as stated: when the handling of a Request has failed, no Response has
\* been put on the output channel for it.
C18_FailedProducesNoResponse ==
    \A w \in Workers :
        worker[w].stage = "failed" => emitted[worker[w].req] = <<>>

\* C18, amended: a Request whose handling failed (by an Err or by a panic)
\* never produces its primary Response; what was sent for it before the failure
\* are relationship batches only, none at all when the fetch of its page
\* failed, and nothing is sent for it after the failure.
C18_FailedProducesNoPrimary ==
    /\ [](\A w \in Workers :
            (worker[w].stage = "failed" \/ worker[w].pc = "panicked") =>
                /\ \A i \in 1 .. Len(emitted[worker[w].req]) :
                        IsBatch(emitted[worker[w].req][i])
                /\ worker[w].cb = <<>> => emitted[worker[w].req] = <<>>)
    /\ [][\A w \in Workers :
            (worker[w].stage = "failed" \/ worker[w].pc = "panicked") =>
                emitted'[worker[w].req] = emitted[worker[w].req]]_vars
    /\ [][\A r \in Requests :
            FailedRequest(r) => emitted'[r] = emitted[r]]_vars

C18_Witness ==
    \E w \in Workers :
        /\ worker[w].stage = "failed"
        /\ worker[w].pc = "inc_completed"
        /\ worker[w].req.kind = "Release"
        /\ worker[w].calls = 1
        /\ emitted[worker[w].req] = << "ReleaseArtist", "Fans", "Fans" >>

\* C19: while the Router lives, try_receive can be taken at once, whatever the
\* workers are doing, and what it returns is a Response when the output channel
\* is non-empty and none when it is empty.
C19_TryReceiveResponseOrNone ==
    thread = "alive" =>
        /\ ENABLED try_recv
        /\ try_recv_result.ok
        /\ try_recv_result.some <=> scraped /= <<>>

\* The worker is between its fetch_add of items_processing, the second
\* instruction after the dequeue, and its fetch_sub, the first instruction after
\* handle_request returned; a worker whose thread ended inside handle_request
\* never reaches the fetch_sub.
Handling(w) ==
    \/ worker[w].pc \in { "get", "wait_page", "post", "wait_api", "send",
                          "dec_processing", "panicked" }
    \/ worker[w].pc = "exited" /\ worker[w].req /= NoRequest

InCall == web_thread.pc /= "recv"

\* C22: outbound HTTP is serialized.  While the network thread is in a call
\* (its delay included) no other job is with it or waiting for it: the call
\* belongs to the one fetch the cache thread is waiting on, whose worker waits
\* for the answer, and every other worker's fetch is still in front of the
\* cache thread.  A result comes from the network only in the step that ends
\* that call, and the time of the last call is read and written by the
\* network thread's own steps only, once per call, before the call is made.
C22_OutboundSerialized ==
    /\ [](InCall =>
            /\ server_requests = <<>>
            /\ cache_thread = [pc |-> "wait", job |-> web_thread.job]
            /\ worker[web_thread.job.from].pc \in { "wait_page", "wait_api" }
            /\ server_reply = NoBody)
    /\ [][/\ (\E k \in Keys : fetched'[k] /= fetched[k]
                                /\ Last(fetched'[k]).src = "net") =>
                /\ web_thread.pc = "send"
                /\ web_thread'.pc = "recv"
                /\ fetched'[web_thread.job.key] /= fetched[web_thread.job.key]
          /\ (last_gap' /= last_gap) =>
                /\ web_thread.pc = "sleep"
                /\ web_thread'.pc = "send"
                /\ web_thread'.job = web_thread.job
          /\ (web_thread.pc = "sleep" /\ web_thread'.pc = "send") =>
                /\ last_gap' = elapsed
                /\ elapsed' = 0
          /\ (InCall /\ InCall') => web_thread'.job = web_thread.job]_vars

C22_Witness ==
    \E w, v \in Workers :
        /\ w /= v
        /\ web_thread.pc = "send"
        /\ web_thread.job.from = w
        /\ worker[w].pc = "wait_page"
        /\ worker[v].pc = "wait_page"
        /\ web /= <<>>
        /\ Head(web).from = v

\* The rows of the cache are those it had, in place, with `n` more at the end
Grown(n) ==
    /\ Len(pages') = Len(pages) + n
    /\ \A i \in 1 .. Len(pages) : pages'[i] = pages[i]
\* The step in which the Gateway ends a fetch that hit / that missed
EndsHit == cache_thread.pc = "lookup" /\ cache_thread'.pc = "recv"
EndsMiss == cache_thread.pc = "wait" /\ cache_thread'.pc = "recv"
OneRowPerKey ==
    \A i, j \in 1 .. Len(pages) : pages[i].key = pages[j].key => i = j

C24_StoreRejectsExistingKey ==
    [][\A k \in Keys :
        Matching(pages, k) /= {} =>
            /\ Matching(pages', k) = Matching(pages, k)
            /\ \A i \in Matching(pages, k) : pages'[i] = pages[i]]_vars

\* C25: opening a cache whose stored version is v executes the migration
\* steps v+1 .. 7, in increasing order and each once, every executed step
\* moving the marker up by exactly one, and commits at version 7 with every
\* step 1 .. 7 executed once over the life of the file; opening a file that is
\* at version 7 executes no step and leaves it as it is.
C25_MigrationsInOrder ==
    /\ [](/\ cache.schema = [i \in 1 .. cache.user_version |-> i]
          /\ cache.pc = "open" => cache.user_version = NumMigrations
          /\ cache.pc = "migrate" =>
                cache.user_version
                    = IF cache.version < cache.index - 1
                         THEN cache.index - 1 ELSE cache.version)
    /\ [][/\ cache'.user_version /= cache.user_version =>
                /\ cache'.user_version = cache.user_version + 1
                /\ cache'.schema = Append(cache.schema, cache'.user_version)
          /\ cache'.user_version = cache.user_version =>
                cache'.schema = cache.schema
          /\ (cache.pc = "migrate" /\ cache.version = NumMigrations) =>
                /\ cache'.schema = cache.schema
                /\ cache'.user_version = cache.user_version]_vars

C25_Witness ==
    /\ cache.pc = "open"
    /\ cache.opens = 2
    /\ cache.version = NumMigrations
    /\ cache.schema = << 1, 2, 3, 4, 5, 6, 7 >>

\* Nothing is left to run: every caller is back from send, every worker waits
\* at the input queue or has ended, the queue is empty unless no worker is left
\* to take from it, and the consumer has drained the output channel.
AtRest ==
    /\ \A c \in Callers : Idle(c)
    /\ \A w \in Workers : worker[w].pc = "recv" \/ Terminated(w)
    /\ to_scrape = <<>> \/ \A w \in Workers : Terminated(w)
    /\ scraped = <<>>

\* C26: while the Router lives and the consumer drains the output channel,
\* every Request forwarded to the workers comes to be counted as completed,
\* once: when nothing is left to run, items_completed is the number of
\* Requests forwarded, and nothing is queued or being processed.
C26_ForwardedCompletedOnce ==
    (thread = "alive" /\ AtRest) =>
        /\ stats.items_completed
            = Cardinality({ r \in Requests : pushed[r] = 1 })
        /\ stats.items_queued = 0
        /\ stats.items_processing = 0

\* The page the worker's scrape was given, and the Responses sent for its
\* Request that are relationship batches
PageOf(w) == Last(fetched[GetKey(worker[w].req.url)]).res
BatchesOf(r) == SelectSeq(emitted[r], IsBatch)
\* The artist's scrape has returned: its worker is at or past the primary send
ArtistScraped(w) ==
    /\ worker[w].req.kind = "Artist"
    /\ worker[w].stage \in { "primary", "ok" }

\* C27 as stated: an Artist scrape has emitted one relationship batch when the
\* page has no client-rendered list and two when it has one.
C27_SecondBatchOnlyWithList ==
    \A w \in Workers :
        ArtistScraped(w) =>
            Len(BatchesOf(worker[w].req)) = IF PageOf(w).n > 0 THEN 2 ELSE 1

\* C27, amended: an Artist scrape emits exactly two relationship batches
\* whether or not the page has the client-rendered list, the second one after
\* the first has been sent and before the primary Response.
C27_AlwaysTwoBatches ==
    \A w \in Workers :
        /\ ArtistScraped(w) =>
            /\ BatchesOf(worker[w].req) = << "Releases", "Releases" >>
            /\ worker[w].cb = << "on_artist", "on_releases", "on_releases" >>
        /\ (worker[w].req.kind = "Artist" /\ worker[w].stage = "ok") =>
                emitted[worker[w].req] = << "Releases", "Releases", "Artist" >>

C27_Witness ==
    \E w \in Workers :
        /\ worker[w].req.kind = "Artist"
        /\ worker[w].stage = "ok"
        /\ PageOf(w) = Page(0, FALSE)
        /\ emitted[worker[w].req] = << "Releases", "Releases", "Artist" >>

\* The scrape of the worker's Request is over: it has returned to
\* handle_request, or its thread has ended in it
ScrapeOver(w) ==
    worker[w].stage \in { "primary", "ok" } \/ worker[w].pc = "panicked"
FansOf(r) == SelectSeq(emitted[r], LAMBDA tag : tag = "Fans")

\* C28: the batches of a Release scrape come in the order owner, reviewers,
\* embedded thumbs, then one per continuation page; the j-th continuation call
\* passes the token of the last item of what came before it (token 0: the last
\* embedded thumb, token j - 1: the last item of page j - 1); and the scrape
\* goes on exactly while the most recent page, or the embedded list, said
\* that more is available, so that at its end every page called for has its
\* batch and the last one said no more.
C28_FanBatchOrder ==
    \A w \in Workers :
        (worker[w].req.kind = "Release" /\ worker[w].primary) =>
            /\ \A i \in 1 .. Len(BatchesOf(worker[w].req)) :
                BatchesOf(worker[w].req)[i]
                    = IF i = 1 THEN "ReleaseArtist" ELSE "Fans"
            /\ worker[w].pc \in { "post", "wait_api" } =>
                /\ Len(FansOf(worker[w].req)) = 2 + worker[w].batches
                /\ worker[w].last_more
                /\ worker[w].token
                    = worker[w].calls - (IF worker[w].pc = "post" THEN 0 ELSE 1)
            /\ ScrapeOver(w) =>
                /\ Len(FansOf(worker[w].req)) = 2 + worker[w].calls
                /\ worker[w].batches = worker[w].calls
                /\ ~worker[w].last_more \/ worker[w].token = NoToken

\* A job of worker w is somewhere in the Gateway
InGateway(w) ==
    \/ \E i \in 1 .. Len(web) : web[i].from = w
    \/ cache_thread.job.from = w
    \/ \E i \in 1 .. Len(server_requests) : server_requests[i].from = w
    \/ web_thread.job.from = w
    \/ reply[w] /= NoBody
IsPrefix(s, t) == Len(s) <= Len(t) /\ \A i \in 1 .. Len(s) : s[i] = t[i]

\* C29: an error of a fetch or of a parse in the middle of a scrape ends the
\* scrape there.  What was sent for the Request before stays sent (no step
\* takes a Response back); from the error on nothing more is sent for it,
\* neither a batch nor the primary Response, its worker makes no further call
\* to the Gateway and has none under way, and goes straight to the end of its
\* loop turn.
C29_ErrorStopsScrape ==
    /\ [](\A w \in Workers :
            worker[w].stage = "failed" =>
                /\ ~InGateway(w)
                /\ worker[w].pc \in { "dec_processing", "inc_completed" }
                /\ ~\E i \in 1 .. Len(emitted[worker[w].req]) :
                        IsPrimary(emitted[worker[w].req][i]))
    /\ [][/\ \A r \in Requests : IsPrefix(emitted[r], emitted'[r])
          /\ \A r \in Requests : IsPrefix(received[r], received'[r])
          /\ \A w \in Workers :
                worker[w].stage = "failed" =>
                    /\ emitted'[worker[w].req] = emitted[worker[w].req]
                    /\ worker'[w].calls = worker[w].calls \/ worker'[w] = IdleWorker
                    /\ worker'[w].cb = worker[w].cb \/ worker'[w] = IdleWorker
                    /\ ~InGateway(w)']_vars

C29_Witness ==
    \E w \in Workers :
        /\ worker[w].stage = "failed"
        /\ worker[w].req.kind = "Release"
        /\ worker[w].calls = 2
        /\ worker[w].batches = 1
        /\ emitted[worker[w].req] = << "ReleaseArtist", "Fans", "Fans", "Fans" >>
        /\ Len(received[worker[w].req]) >= 3

\* The page at the Request's URL has an item_type that is no release type
BadTypePage(r) ==
    /\ fetched[GetKey(r.url)] /= <<>>
    /\ Last(fetched[GetKey(r.url)]).res = BadType

\* C30: a Release whose page has an item_type other than "a" and "t" fails as
\* a whole: none of its callbacks is called and no Response is sent for it,
\* not the owning artist, not a batch of fans, not the primary one; its worker
\* goes from the page straight to the end of its loop turn.
C30_UnknownTypeFails ==
    \A r \in Requests :
        (r.kind = "Release" /\ BadTypePage(r)) =>
            /\ emitted[r] = <<>>
            /\ \A w \in Workers :
                worker[w].req = r =>
                    /\ worker[w].cb = <<>>
                    /\ ~worker[w].primary
                    /\ worker[w].calls = 0
                    /\ worker[w].pc \in
                        { "dec_queued", "inc_processing", "get", "wait_page",
                          "dec_processing", "inc_completed" }
                    /\ worker[w].pc \in { "dec_processing", "inc_completed" }
                            => worker[w].stage = "failed"

C30_Witness ==
    \E w \in Workers :
        /\ worker[w].req.kind = "Release"
        /\ fetched[GetKey(worker[w].req.url)]
            = << [src |-> "net", res |-> BadType] >>
        /\ worker[w].stage = "failed"
        /\ worker[w].pc = "inc_completed"
        /\ emitted[worker[w].req] = <<>>
        /\ scraped = <<>>

\* ------------------------------------------------- scrape_release: length
MaxDuration == 1
MaxTracks == 2
Durations == (0 - MaxDuration) .. MaxDuration
ItemLists == UNION { [1 .. n -> Durations] : n \in 0 .. MaxTracks }

\* track.elements.iter().map(|el| el.item.duration.0).reduce(|a, b| a + b):
\* None for an empty list, else the sum, folded from the left
RECURSIVE reduce(_)
reduce(elements) ==
    IF elements = <<>> THEN None
    ELSE IF Len(elements) = 1 THEN Some(elements[1])
    ELSE Some(reduce(SubSeq(elements, 1, Len(elements) - 1))[1]
                + elements[Len(elements)])

\* Variant of length: the track list is asked first, the top-level duration
\* only when there is no sum
length_m(ld_data) ==
    LET sum == IF ld_data.track = None THEN None
               ELSE reduce(ld_data.track[1])
        first == IF sum /= None THEN sum ELSE ld_data.duration
    IN  IF first = None THEN 0 ELSE first[1]

\* length: page.ld_data.duration.map(|d| d.0)
\*           .or_else(|| page.ld_data.track.and_then(|track| ...reduce...))
\*           .unwrap_or_default()
length(ld_data) ==
    LET or_else ==
            IF ld_data.duration /= None THEN ld_data.duration
            ELSE IF ld_data.track = None THEN None
            ELSE reduce(ld_data.track[1])
    IN  IF or_else = None THEN 0 ELSE or_else[1]

\* scrape_release builds the ReleaseDetails handed to on_release from a parsed
\* page
scrape_release_details ==
    /\ release_page.pc = "page"
    /\ release_page' =
        [release_page EXCEPT !.pc = "details", !.length = length(release_page)]
    /\ UNCHANGED << done, to_scrape_tx, to_scrape, scraped_rx, scraped, stats,
                    thread, caller, worker, submits, pushed, emitted,
                    received, web, reply, cache_thread, server_requests,
                    server_reply, web_thread, pages, elapsed, fetched,
                    last_gap, cache >>

\* Every release page: any top-level duration or none, any track list or none
InitLength ==
    /\ Pipeline
    /\ cache = Migrated
    /\ release_page \in
        { ReleaseLdData(d, t) :
            d \in { None } \cup { Some(x) : x \in Durations },
            t \in { None } \cup { Some(l) : l \in ItemLists } }

NextLength == scrape_release_details

SpecLength == InitLength /\ [][NextLength]_vars

RECURSIVE SumOf(_)
SumOf(l) == IF l = <<>> THEN 0 ELSE Head(l) + SumOf(Tail(l))

\* C31: the length reported for a release is the top-level duration when
\* there is one; otherwise the sum of the durations of the entries of the
\* track list; and zero when there is neither a top-level duration nor any
\* track entry.
C31_ReleaseLength ==
    release_page.pc = "details" =>
        /\ release_page.duration /= None =>
              release_page.length = release_page.duration[1]
        /\ (release_page.duration = None /\ release_page.track /= None) =>
              release_page.length = SumOf(release_page.track[1])
        /\ (/\ release_page.duration = None
            /\ \/ release_page.track = None
               \/ release_page.track[1] = <<>>) =>
              release_page.length = 0

\* A release with a track list and no top-level duration got the sum of its
\* two tracks
C31_Witness ==
    /\ release_page.pc = "details"
    /\ release_page.duration = None
    /\ release_page.track = Some(<< 1, 1 >>)
    /\ release_page.length = 2

\* A release with both got its top-level duration
C31_WitnessTop ==
    /\ release_page.pc = "details"
    /\ release_page.duration = Some(0)
    /\ release_page.track = Some(<< 1, 1 >>)
    /\ release_page.length = 0

\* The jobs the Client has been handed and has not answered
AtClient ==
    { server_requests[i] : i \in 1 .. Len(server_requests) }
        \cup (IF web_thread.job = NoJob THEN {} ELSE { web_thread.job })

\* C32: a fetch served from the cache never reaches the Client: the job is
\* answered from the row without being handed to the network thread, so no
\* sleep is made and the last-call time is neither read nor set for it, and
\* every job the Client holds is one whose key has no row.
C32_HitSkipsClient ==
    /\ [](\A job \in AtClient : Lookup(pages, job.key) = NoBody)
    /\ [][(/\ cache_thread.pc = "lookup"
           /\ cache_thread' /= cache_thread
           /\ Lookup(pages, cache_thread.job.key) /= NoBody) =>
              /\ reply'[cache_thread.job.from]
                    = Lookup(pages, cache_thread.job.key)
              /\ server_requests' = server_requests
              /\ web_thread' = web_thread
              /\ elapsed' = elapsed
              /\ last_gap' = last_gap]_vars

\* A fetch was served from the cache half a delay after the last network call
C32_Witness ==
    /\ cache_thread.pc = "recv"
    /\ stats.web_cache_hits = 1
    /\ elapsed = TickMs
    /\ web_thread.pc = "recv"
    /\ \E k \in Keys :
        /\ Len(fetched[k]) = 2
        /\ fetched[k][1].src = "net"
        /\ fetched[k][2].src = "cache"

\* C33: when the network call of a miss fails, the error goes back to the
\* worker that asked and no row is written; the key has no row for as long
\* as its last call failed, and the fetch of the key that comes after a
\* failed call is again a network call.
C33_FailedMissNotCached ==
    /\ [](\A k \in Keys :
            /\ (fetched[k] /= <<>> /\ Last(fetched[k]) =
                    [src |-> "net", res |-> Err]) =>
                  Lookup(pages, k) = NoBody
            /\ \A i \in 1 .. Len(fetched[k]) - 1 :
                  fetched[k][i] = [src |-> "net", res |-> Err] =>
                      fetched[k][i + 1].src = "net")
    /\ [][(/\ cache_thread.pc = "wait"
           /\ cache_thread' /= cache_thread
           /\ server_reply = Err) =>
              /\ reply'[cache_thread.job.from] = Err
              /\ \A w \in Workers \ { cache_thread.job.from } :
                    reply'[w] = reply[w]
              /\ pages' = pages]_vars

\* A call for a key failed, the worker that asked was told so, and the next
\* fetch of the key, by the other worker, went to the network again
C33_Witness ==
    \E k \in Keys :
        /\ Len(fetched[k]) = 2
        /\ fetched[k][1] = [src |-> "net", res |-> Err]
        /\ fetched[k][2].src = "net"
        /\ stats.web_cache_misses = 2
        /\ stats.web_cache_hits = 0
        /\ \E w \in Workers : worker[w].stage = "failed"

\* The distinct Requests submitted: those of the seen-set, but for a Request
\* whose send call has inserted it and not yet counted it
Submitted ==
    Cardinality(done) - Cardinality({ c \in Callers : caller[c].pc = "queued" })
Counted ==
    stats.items_queued + stats.items_processing + stats.items_completed
\* A worker between two of its counter updates: past fetch_sub on queued and
\* before fetch_add on processing, or past fetch_sub on processing and before
\* fetch_add on completed
BetweenCounters(w) == worker[w].pc \in { "inc_processing", "inc_completed" }

\* C34: statistics conservation.  While the Router is alive, queued +
\* processing + completed is at most the number of distinct Requests
\* submitted and at least that number minus the number of workers, and it is
\* that number whenever no worker is between two of its counter updates: each
\* such worker accounts for exactly one missing Request.
C34_StatsConservation ==
    thread = "alive" =>
        /\ Counted <= Submitted
        /\ Counted >= Submitted - NumWorkers
        /\ (\A w \in Workers : ~BetweenCounters(w)) => Counted = Submitted
        /\ Counted =
            Submitted - Cardinality({ w \in Workers : BetweenCounters(w) })

\* Three Requests submitted, both workers between two counter updates: the
\* sum is down to one
C34_Witness ==
    /\ thread = "alive"
    /\ Submitted = NumWorkers + 1
    /\ \A w \in Workers : BetweenCounters(w)
    /\ Counted = 1
    /\ \E w \in Workers : worker[w].pc = "inc_completed"

\* C35: items_queued never underflows.  Every decrement a worker has still to
\* make, for a Request on the input queue or one it has just taken, has its
\* increment made already, so the counter is never below zero (the value a
\* wrapped AtomicUsize would stand for), and a step that lowers it lowers a
\* value of at least one by one.
C35_QueuedNeverUnderflows ==
    /\ [](/\ stats.items_queued >= 0
          /\ stats.items_queued >=
                Len(to_scrape)
                    + Cardinality({ w \in Workers :
                                        worker[w].pc = "dec_queued" }))
    /\ [][stats'.items_queued < stats.items_queued =>
            /\ stats.items_queued >= 1
            /\ stats'.items_queued = stats.items_queued - 1]_vars

\* A worker has made its decrement and the counter is at zero, while another
\* send call is between its insert and its increment
C35_Witness ==
    /\ stats.items_queued = 0
    /\ \E w \in Workers : worker[w].pc = "inc_processing"
    /\ \E c \in Callers : caller[c].pc = "queued"
    /\ to_scrape = <<>>

PrimaryCallbacks == { "on_artist", "on_release", "on_fan" }

\* C36: in every scrape the primary callback is the first callback invoked and
\* no other callback comes before it, so the stored primary entity is there
\* whenever a relationship or owning-artist callback reads it and when
\* handle_request takes it out after the scrape; no worker panics on an empty
\* slot (a worker that panicked did so with the slot filled).
C36_PrimaryStoredFirst ==
    \A w \in Workers :
        /\ \A i \in 1 .. Len(worker[w].cb) :
              (worker[w].cb[i] \in PrimaryCallbacks) <=> i = 1
        /\ worker[w].cb /= <<>> => worker[w].primary
        /\ worker[w].pc = "send" => worker[w].primary
        /\ worker[w].stage \in { "primary", "ok" } => worker[w].primary
        /\ worker[w].pc = "panicked" => worker[w].primary

\* A Release scrape went through all its callbacks and sent its primary
\* Response from the stored entity
C36_Witness ==
    \E w \in Workers :
        /\ worker[w].req.kind = "Release"
        /\ worker[w].stage = "ok"
        /\ worker[w].primary
        /\ worker[w].cb =
            << "on_release", "on_release_artist", "on_fans", "on_fans" >>

\* ------------------------------------------------------ scrape_fan: paging
MaxCount == 2
\* Fan pages of every shape: more, as many or fewer items embedded than
\* counted, every one of them in the item cache or not
FanPages ==
    { FanPage(n, k, c) : n \in 0 .. 1, k \in 0 .. 1, c \in 0 .. MaxCount }
        \ { FanPage(0, 1, c) : c \in 0 .. MaxCount }
Fans == { Request("User", u) : u \in Urls }
\* Pages of the collection_items API, each with one item
ItemPages == { Page(1, m) : m \in BOOLEAN }

\* The pipeline on fan Requests: a GET is answered by a fan page or fails, a
\* POST by a page of the collection_items API
NextFan ==
    \/ \E c \in Callers : send(c, Fans, MaxSubmits)
    \/ try_recv
    \/ Background
    \/ get_from_server(FanPages \cup ItemPages \cup { Err })

SpecFan == Init /\ [][NextFan]_vars

\* The fan page a User Request was given, once it was given one
HasFanPage(r) ==
    /\ fetched[GetKey(r.url)] /= <<>>
    /\ Last(fetched[GetKey(r.url)]).res \in FanPages
FanPageOf(r) == Last(fetched[GetKey(r.url)]).res
Covered(r) == FanPageOf(r).n >= FanPageOf(r).collection_count
Posted(r) ==
    \E t \in 0 .. MaxPages :
        \/ fetched[PostKey(r.url, "collection_items", t)] /= <<>>
        \/ \E w \in Workers :
            /\ worker[w].req = r
            /\ \/ worker[w].pc = "post"
               \/ worker[w].calls > 0

\* C37: a User scrape calls the collection_items API only if the items rebuilt
\* from the embedded sequence are fewer than the page's collection_count, and
\* it does call it then once the embedded batch is sent; when the embedded
\* items cover collection_count no POST is made, and the scrape that has
\* returned has sent exactly one Collection batch.
C37_PagingOnlyBelowCount ==
    \A r \in Fans :
        HasFanPage(r) =>
            /\ Posted(r) => ~Covered(r) /\ ~missing(FanPageOf(r))
            /\ Covered(r) => Len(BatchesOf(r)) <= 1
            /\ \A w \in Workers :
                (worker[w].req = r /\ worker[w].stage \in { "primary", "ok" })
                    =>
                    IF Covered(r)
                       THEN /\ worker[w].calls = 0
                            /\ worker[w].cb = << "on_fan", "on_collection" >>
                            /\ BatchesOf(r) = << "Collection" >>
                       ELSE worker[w].calls >= 1

\* A fan whose page embeds as many items as it counts was scraped to the end
\* with one batch and no POST, while another fan, with fewer embedded than
\* counted, is in a POST
C37_Witness ==
    \E w, v \in Workers :
        /\ worker[w].req \in Fans
        /\ HasFanPage(worker[w].req)
        /\ FanPageOf(worker[w].req) = FanPage(1, 1, 1)
        /\ worker[w].stage = "ok"
        /\ worker[w].calls = 0
        /\ emitted[worker[w].req] = << "Collection", "User" >>
        /\ worker[v].req \in Fans
        /\ HasFanPage(worker[v].req)
        /\ FanPageOf(worker[v].req) = FanPage(1, 1, 2)
        /\ worker[v].pc = "wait_api"

\* The worker is in rx.recv() of Scraper::get / Scraper::post
Waiting(w) == worker[w].pc \in { "wait_page", "wait_api" }
\* Where the job of a worker, or its reply, is: in the web channel, with the
\* cache thread, or in the worker's response channel
InWeb(w) == Cardinality({ i \in 1 .. Len(web) : web[i].from = w })
Pending(w) ==
    InWeb(w) + (IF cache_thread.job.from = w THEN 1 ELSE 0)
             + (IF reply[w] /= NoBody THEN 1 ELSE 0)

\* C38: every job sent to the Gateway thread gets exactly one reply, and the
\* jobs are served in the order of their arrival: a waiting worker's job is in
\* exactly one place (the channel, the cache thread, or answered), no other
\* worker has any; the thread takes the head of the channel, new jobs join at
\* its end, and a reply goes to the worker of the job the thread holds and to
\* nobody else; the thread takes the next job whatever the last reply was, and
\* the reply a worker waits for does come.
C38_EveryJobAnsweredOnce ==
    /\ [](\A w \in Workers : Pending(w) = IF Waiting(w) THEN 1 ELSE 0)
    /\ [][/\ cache_thread'.job \notin { cache_thread.job, NoJob } =>
                /\ web /= <<>>
                /\ cache_thread'.job = Head(web)
                /\ web' = Tail(web)
          /\ Len(web') > Len(web) =>
                \E w \in Workers :
                    /\ ~Waiting(w)
                    /\ Waiting(w)'
                    /\ web' = Append(web, web'[Len(web')])
                    /\ web'[Len(web')].from = w
          /\ \A w \in Workers :
                (reply'[w] /= reply[w] /\ reply'[w] /= NoBody) =>
                    /\ cache_thread.job.from = w
                    /\ cache_thread'.pc = "recv"
                    /\ reply[w] = NoBody
                    /\ \A v \in Workers \ { w } : reply'[v] = reply[v]]_vars
    /\ \A w \in Workers :
        (Waiting(w) /\ reply[w] = NoBody) ~> (reply[w] /= NoBody)

\* A job ended in an error, and the Gateway thread is serving the job that
\* arrived behind it while a third fetch waits in the channel
C38_Witness ==
    \E w, v \in Workers :
        /\ w /= v
        /\ Waiting(w)
        /\ Waiting(v)
        /\ cache_thread.job.from = w
        /\ cache_thread.pc = "wait"
        /\ InWeb(v) = 1
        /\ \E k \in Keys :
            /\ fetched[k] /= <<>>
            /\ Last(fetched[k]) = [src |-> "net", res |-> Err]
        /\ stats.web_requests >= 2

\* The worker cannot go on by itself: it is in a send on the full output
\* channel, or in a call to the Gateway that has not been answered
Stalled(w) ==
    \/ Blocked(w)
    \/ Waiting(w) /\ reply[w] = NoBody
    \/ worker[w].pc \in { "get", "post" } /\ Len(web) >= WebCapacity

\* C39: submit never waits for the workers or the consumer: whatever the
\* workers do, the next step of a send call that has begun can be taken, a
\* push included however many Requests are on the input queue, and a call
\* that has begun returns without any worker, Gateway or consumer step
\* being needed.
C39_SubmitNeverWaits ==
    /\ [](\A c \in Callers :
            /\ caller[c].pc = "queued" => ENABLED send_queued(c)
            /\ caller[c].pc = "push" => ENABLED send_push(c)
            /\ caller[c].pc = "duplicate" => ENABLED send_duplicate(c))
    /\ \A c \in Callers : (~Idle(c)) ~> Idle(c)

\* With both workers stalled, one in a send on the full output channel, a
\* third Request was pushed and its send call has returned
C39_Witness ==
    /\ \A w \in Workers : Stalled(w)
    /\ \E w \in Workers : Blocked(w)
    /\ \A c \in Callers : Idle(c)
    /\ submits = NumWorkers + 1
    /\ Len(to_scrape) = 1
    /\ pushed[to_scrape[1]] = 1
====
